---- MODULE Spec2Model ----
(***************************************************************************)
(* A state-machine model of SceneManager (Final Project/Source/            *)
(* SceneManager.cpp): the texture registry and the OpenGL objects it       *)
(* owns, the material registry, the uniform-writing operations, and the    *)
(* PrepareScene / RenderScene call sequences.                              *)
(*                                                                         *)
(* Floats are held as fixed-point thousandths (1.0f is 1000).              *)
(* The external collaborators (stb_image, OpenGL, ShaderManager,           *)
(* ShapeMeshes) are modelled by the state the calls made here leave in     *)
(* them: live decoded buffers, generated texture names, per-unit texture   *)
(* bindings, uniform values, loaded meshes.                                *)
(***************************************************************************)
EXTENDS Integers, Sequences, FiniteSets, TLC

(* ------------------------------ bounds --------------------------------- *)

\* number of CreateGLTexture calls that decode an image, in Spec
MaxLoads == 3
\* number of DestroyGLTextures calls, in Spec
MaxDestroys == 1
\* number of CreateGLTexture calls that decode an image, in SpecFill
MaxFillLoads == 17
\* number of DefineObjectMaterials calls, in SpecMaterial
MaxDefines == 2
\* number of CreateGLTexture calls that reject the image's channel count, in SpecFill
MaxFillRejects == 1
\* number of RenderScene runs, in SpecFrame
MaxFrames == 2
\* number of materials pushed, in SpecRegister
MaxMaterials == 3

(* ------------------------- program constants --------------------------- *)

\* the 16 slots of m_textureIDs that the constructor initialises
NumSlots == 16

NULL == "NULL"
Shader == "ShaderManager"

g_ModelName == "model"
g_ColorValueName == "objectColor"
g_TextureValueName == "objectTexture"
g_UseTextureName == "bUseTexture"

VARIABLES
    alive,              \* the object is constructed and not yet destructed
    crashed,            \* the process died on undefined behaviour
    m_pShaderManager,   \* NULL or Shader
    m_basicMeshes,      \* NULL, or the set of meshes loaded into ShapeMeshes
    m_textureIDs,       \* index -> [tag, ID]; indexes >= NumSlots are memory past the array
    m_loadedTextures,
    m_objectMaterials,  \* std::vector<OBJECT_MATERIAL> as a sequence
    glGenCount,         \* texture names handed out by glGenTextures so far
    glTexImage,         \* GL texture objects: name -> internal format ("none" until uploaded)
    glDeleted,          \* names released with glDeleteTextures
    glActiveUnit,       \* glActiveTexture selector
    glBound,            \* unit -> name bound to GL_TEXTURE_2D on that unit (0: none)
    files,              \* the image files on disk: path -> channels stbi_load reports (0: undecodable)
    heapImages,         \* decoded pixel buffers returned by stbi_load and not yet freed
    uniforms,           \* uniforms of the shader program: name -> value written last
    pc,                 \* position in the PrepareScene / RenderScene call sequence
    frame,              \* RenderScene runs started by the main loop
    last,               \* the last call: name, arguments, result, what it wrote
    loadLog,            \* history: <<tag, handle>> of every CreateGLTexture that returned true
    destroys,           \* history: number of DestroyGLTextures calls
    defines,            \* history: number of DefineObjectMaterials calls
    draws,              \* history: the draw calls of the frame, as the mesh library sees them
    sinceDraw           \* history: the calls made since the previous draw call

vars == << alive, crashed, m_pShaderManager, m_basicMeshes, m_textureIDs,
           m_loadedTextures, m_objectMaterials, glGenCount, glTexImage, glDeleted,
           glActiveUnit, glBound, files, heapImages, uniforms, pc, frame, last,
           loadLog, destroys, defines, draws, sinceDraw >>

glVars == << glGenCount, glTexImage, glDeleted, glActiveUnit, glBound >>
texVars == << m_textureIDs, m_loadedTextures >>
histVars == << loadLog, destroys, defines >>
frameVars == << pc, frame, draws, sinceDraw >>

(* ------------------------------ helpers -------------------------------- *)

EmptyFn == [x \in {} |-> 0]

\* a call record; ret is 1/0 for bool results, the int for the Find functions;
\* arg and out are a by-reference OBJECT_MATERIAL before and after the call.
\* No operation constrains pc, draws and sinceDraw: the call sequences below do.
Call(op, tag, ch, ret, writes, pre, gen, nullDeref, out) ==
    [op |-> op, tag |-> tag, ch |-> ch, ret |-> ret, writes |-> writes,
     pre |-> pre, gen |-> gen, nullDeref |-> nullDeref, out |-> out, arg |-> out]

\* an OBJECT_MATERIAL with every coefficient zero and no tag
NoMaterial == [ambientColor |-> <<0, 0, 0>>, ambientStrength |-> 0,
               diffuseColor |-> <<0, 0, 0>>, specularColor |-> <<0, 0, 0>>,
               shininess |-> 0, tag |-> ""]

\* ShaderManager::set*Value on a bound shader: write the pairs of `ws` in order
RECURSIVE WriteAll(_, _)
WriteAll(u, ws) ==
    IF ws = << >> THEN u
    ELSE WriteAll((ws[1][1] :> ws[1][2]) @@ u, Tail(ws))

Names(ws) == [i \in 1..Len(ws) |-> ws[i][1]]

Running == alive /\ ~crashed

(* ----------------------------- image files ----------------------------- *)

TexturePath(name) == "../../Utilities/textures/" \o name

\* lines 397-432: the files LoadSceneTextures names; a JPEG decodes to 3 channels
SceneFiles ==
    [f \in {TexturePath("bluefur.jpg"), TexturePath("blackplastic.jpg"),
            TexturePath("glass.jpg"), TexturePath("drywall.jpg"),
            TexturePath("keyboard.jpg"), TexturePath("screen.jpg"),
            TexturePath("book.jpg"), TexturePath("pages.jpg"),
            TexturePath("headphones.jpg"), TexturePath("room.jpg")} |-> 3]

\* files of each kind CreateGLTexture tells apart: RGB, RGBA, grey, not an image
OtherFiles ==
    ("rgb.jpg" :> 3) @@ ("rgba.png" :> 4) @@ ("gray.jpg" :> 1) @@ ("missing.jpg" :> 0)

\* the disk as installed, and with one of the scene's files missing or greyscale
InstalledFiles == SceneFiles @@ OtherFiles

FileSystems ==
    {InstalledFiles} \cup
    {[InstalledFiles EXCEPT ![f] = c] : f \in DOMAIN SceneFiles, c \in {0, 1}}

(* -------------------------- texture registry --------------------------- *)

\* SceneManager::SceneManager
Init ==
    /\ alive = TRUE
    /\ crashed = FALSE
    /\ m_pShaderManager \in {Shader, NULL}
    /\ m_basicMeshes = {}
    /\ m_textureIDs = [i \in 0..(NumSlots - 1) |-> [tag |-> "/0", ID |-> -1]]
    /\ m_loadedTextures = 0
    /\ m_objectMaterials = << >>
    /\ glGenCount = 0
    /\ glTexImage = EmptyFn
    /\ glDeleted = {}
    /\ glActiveUnit = 0
    /\ glBound = [u \in 0..(NumSlots - 1) |-> 0]
    /\ files \in FileSystems
    /\ heapImages = 0
    /\ uniforms = EmptyFn
    /\ pc = 1
    /\ frame = 0
    /\ last = Call("SceneManager", "", 0, 0, << >>, 0, 0, FALSE, NoMaterial)
    /\ loadLog = << >>
    /\ destroys = 0
    /\ defines = 0
    /\ draws = << >>
    /\ sinceDraw = << >>

\* lines 126-127: m_textureIDs[m_loadedTextures].ID = textureID; .tag = tag
RegisterTexture(ids, n, textureID, tag) ==
    (n :> [tag |-> tag, ID |-> textureID]) @@ ids

\* glBindTexture(GL_TEXTURE_2D, name) acts on the active unit
BindTexture2D(bound, unit, name) == (unit :> name) @@ bound

\* SceneManager::CreateGLTexture. colorChannels is what stbi_load reports for
\* the file; 0 stands for a file stbi_load cannot decode (image == NULL).
CreateGLTexture(filename, tag) ==
    /\ Running
    /\ LET textureID == glGenCount + 1
           n == m_loadedTextures
           colorChannels == files[filename]
       IN
       IF colorChannels = 0
       THEN \* lines 133-136
            /\ last' = Call("CreateGLTexture", tag, colorChannels, 0, << >>, n, 0,
                            FALSE, NoMaterial)
            /\ UNCHANGED << crashed, texVars, glVars, heapImages, loadLog >>
       ELSE IF colorChannels \notin {3, 4}
       THEN \* lines 96-104, 112-116
            /\ glGenCount' = textureID
            /\ glTexImage' = (textureID :> "none") @@ glTexImage
            /\ glBound' = BindTexture2D(glBound, glActiveUnit, textureID)
            /\ heapImages' = heapImages + 1
            /\ last' = Call("CreateGLTexture", tag, colorChannels, 0, << >>, n,
                            textureID, FALSE, NoMaterial)
            /\ UNCHANGED << crashed, texVars, glDeleted, glActiveUnit, loadLog >>
       ELSE \* lines 96-111, 119-130
            /\ glGenCount' = textureID
            /\ glTexImage' = (textureID :> (IF colorChannels = 3 THEN "RGB8" ELSE "RGBA8"))
                                @@ glTexImage
            /\ glBound' = BindTexture2D(glBound, glActiveUnit, 0)
            /\ heapImages' = heapImages
            /\ m_textureIDs' = RegisterTexture(m_textureIDs, n, textureID, tag)
            /\ m_loadedTextures' = n + 1
            /\ loadLog' = Append(loadLog, <<tag, textureID>>)
            /\ last' = Call("CreateGLTexture", tag, colorChannels, 1, << >>, n,
                            textureID, FALSE, NoMaterial)
            \* a store past m_textureIDs[15] is undefined: it lands in the memory
            \* that follows the array, or the process dies on it
            /\ \/ crashed' = crashed
               \/ n >= NumSlots /\ crashed' = TRUE
            /\ UNCHANGED << glDeleted, glActiveUnit >>
    /\ UNCHANGED << alive, m_pShaderManager, m_basicMeshes, m_objectMaterials,
                    files, uniforms, destroys, defines >>

\* SceneManager::BindGLTextures
RECURSIVE BindFrom(_, _)
BindFrom(bound, i) ==
    IF i < m_loadedTextures
    THEN BindFrom(BindTexture2D(bound, i, m_textureIDs[i].ID), i + 1)
    ELSE bound

BindGLTextures ==
    /\ Running
    /\ glBound' = BindFrom(glBound, 0)
    /\ glActiveUnit' = IF m_loadedTextures > 0 THEN m_loadedTextures - 1 ELSE glActiveUnit
    /\ last' = Call("BindGLTextures", "", 0, 0, << >>, m_loadedTextures, 0, FALSE,
                    NoMaterial)
    /\ UNCHANGED << alive, crashed, m_pShaderManager, m_basicMeshes, texVars,
                    m_objectMaterials, glGenCount, glTexImage, glDeleted, files,
                    heapImages, uniforms, histVars >>

\* SceneManager::DestroyGLTextures: glGenTextures(1, &m_textureIDs[i].ID) per slot
DestroyedIDs(ids, n, gen) ==
    [i \in DOMAIN ids |->
        IF i < n THEN [tag |-> ids[i].tag, ID |-> gen + i + 1] ELSE ids[i]]

DestroyEffect ==
    /\ m_textureIDs' = DestroyedIDs(m_textureIDs, m_loadedTextures, glGenCount)
    /\ glGenCount' = glGenCount + m_loadedTextures
    /\ glTexImage' = [nm \in (DOMAIN glTexImage) \cup
                               ((glGenCount + 1)..(glGenCount + m_loadedTextures)) |->
                         IF nm \in DOMAIN glTexImage THEN glTexImage[nm] ELSE "none"]
    /\ destroys' = destroys + 1
    /\ UNCHANGED << m_loadedTextures, glDeleted, glActiveUnit, glBound >>

DestroyGLTextures ==
    /\ Running
    /\ DestroyEffect
    /\ last' = Call("DestroyGLTextures", "", 0, 0, << >>, m_loadedTextures, 0, FALSE,
                    NoMaterial)
    /\ UNCHANGED << alive, crashed, m_pShaderManager, m_basicMeshes, m_objectMaterials,
                    files, heapImages, uniforms, loadLog, defines >>

\* SceneManager::~SceneManager
Destructor ==
    /\ Running
    /\ m_pShaderManager' = NULL
    /\ m_basicMeshes' = NULL
    /\ DestroyEffect
    /\ alive' = FALSE
    /\ last' = Call("~SceneManager", "", 0, 0, << >>, m_loadedTextures, 0, FALSE,
                    NoMaterial)
    /\ UNCHANGED << crashed, m_objectMaterials, files, heapImages, uniforms,
                    loadLog, defines >>

\* SceneManager::FindTextureID
\* the search that goes on to the latest entry with the tag
RECURSIVE FindTextureIDFromLatest(_, _)
FindTextureIDFromLatest(tag, index) ==
    IF index < m_loadedTextures
    THEN LET later == FindTextureIDFromLatest(tag, index + 1)
         IN IF later # -1 THEN later
            ELSE IF m_textureIDs[index].tag = tag THEN m_textureIDs[index].ID ELSE -1
    ELSE -1

RECURSIVE FindTextureIDFrom(_, _)
FindTextureIDFrom(tag, index) ==
    IF index < m_loadedTextures
    THEN IF m_textureIDs[index].tag = tag
         THEN m_textureIDs[index].ID
         ELSE FindTextureIDFrom(tag, index + 1)
    ELSE -1

FindTextureID(tag) == FindTextureIDFrom(tag, 0)

\* the search that answers slot 0 for a tag it does not find
RECURSIVE FindTextureSlotFromMissZero(_, _)
FindTextureSlotFromMissZero(tag, index) ==
    IF index < m_loadedTextures
    THEN IF m_textureIDs[index].tag = tag
         THEN index
         ELSE FindTextureSlotFromMissZero(tag, index + 1)
    ELSE 0

\* SceneManager::FindTextureSlot
RECURSIVE FindTextureSlotFrom(_, _)
FindTextureSlotFrom(tag, index) ==
    IF index < m_loadedTextures
    THEN IF m_textureIDs[index].tag = tag
         THEN index
         ELSE FindTextureSlotFrom(tag, index + 1)
    ELSE -1

\* the search started one slot late
FindTextureSlotSkipsFirst(tag) == FindTextureSlotFrom(tag, 1)

FindTextureSlot(tag) == FindTextureSlotFrom(tag, 0)

(* ------------------------- fixed-point algebra ------------------------- *)

\* a product of two thousandths, rounded to the nearest thousandth
Round(x) == (x + 500) \div 1000

\* cos and sin of an angle in degrees (glm::radians, then cos/sin), in thousandths
CosTable == [a \in {0, 5, 10, 15, 20, 25, 45, 90, 100, 180, 270} |->
    CASE a = 0 -> 1000 [] a = 5 -> 996 [] a = 10 -> 985 [] a = 15 -> 966
      [] a = 20 -> 940 [] a = 25 -> 906 [] a = 45 -> 707 [] a = 90 -> 0
      [] a = 100 -> -174 [] a = 180 -> -1000 [] a = 270 -> 0]

SinTable == [a \in {0, 5, 10, 15, 20, 25, 45, 90, 100, 180, 270} |->
    CASE a = 0 -> 0 [] a = 5 -> 87 [] a = 10 -> 174 [] a = 15 -> 259
      [] a = 20 -> 342 [] a = 25 -> 423 [] a = 45 -> 707 [] a = 90 -> 1000
      [] a = 100 -> 985 [] a = 180 -> 0 [] a = 270 -> -1000]

Cos(deg) == IF deg < 0 THEN CosTable[-deg] ELSE CosTable[deg]
Sin(deg) == IF deg < 0 THEN -SinTable[-deg] ELSE SinTable[deg]

\* glm::mat4 operator*, on matrices written as four rows
MatMul(A, B) ==
    [i \in 1..4 |-> [j \in 1..4 |->
        Round(A[i][1] * B[1][j] + A[i][2] * B[2][j] + A[i][3] * B[3][j] + A[i][4] * B[4][j])]]

\* glm::scale(v)
ScaleMat(v) ==
    << <<v[1], 0, 0, 0>>, <<0, v[2], 0, 0>>, <<0, 0, v[3], 0>>, <<0, 0, 0, 1000>> >>

\* glm::translate(v)
TranslateMat(v) ==
    << <<1000, 0, 0, v[1]>>, <<0, 1000, 0, v[2]>>, <<0, 0, 1000, v[3]>>, <<0, 0, 0, 1000>> >>

\* glm::rotate(glm::radians(deg), axis) for the three unit axes
RotateX(deg) ==
    << <<1000, 0, 0, 0>>, <<0, Cos(deg), -Sin(deg), 0>>,
       <<0, Sin(deg), Cos(deg), 0>>, <<0, 0, 0, 1000>> >>

RotateY(deg) ==
    << <<Cos(deg), 0, Sin(deg), 0>>, <<0, 1000, 0, 0>>,
       <<-Sin(deg), 0, Cos(deg), 0>>, <<0, 0, 0, 1000>> >>

RotateZ(deg) ==
    << <<Cos(deg), -Sin(deg), 0, 0>>, <<Sin(deg), Cos(deg), 0, 0>>,
       <<0, 0, 1000, 0>>, <<0, 0, 0, 1000>> >>

\* the factors of line 286 with the scale applied last
ModelViewScaleLast(scaleXYZ, XrotationDegrees, YrotationDegrees, ZrotationDegrees, positionXYZ) ==
    MatMul(MatMul(MatMul(MatMul(ScaleMat(scaleXYZ), TranslateMat(positionXYZ)),
                         RotateX(XrotationDegrees)),
                  RotateY(YrotationDegrees)),
           RotateZ(ZrotationDegrees))

\* line 286: modelView = translation * rotationX * rotationY * rotationZ * scale
ModelView(scaleXYZ, XrotationDegrees, YrotationDegrees, ZrotationDegrees, positionXYZ) ==
    MatMul(MatMul(MatMul(MatMul(TranslateMat(positionXYZ), RotateX(XrotationDegrees)),
                         RotateY(YrotationDegrees)),
                  RotateZ(ZrotationDegrees)),
           ScaleMat(scaleXYZ))

(* ---------------------------- uniform binder --------------------------- *)

\* what a sequence of ShaderManager::set*Value calls through m_pShaderManager does:
\* the writes, on a bound shader; a null dereference, on NULL (the process dies
\* on it or runs on with nothing written)
ThroughShader(op, tag, writes, out) ==
    IF m_pShaderManager # NULL
    THEN /\ uniforms' = WriteAll(uniforms, writes)
         /\ crashed' = crashed
         /\ last' = Call(op, tag, 0, 0, Names(writes), m_loadedTextures, 0, FALSE, out)
    ELSE /\ uniforms' = uniforms
         /\ crashed' \in {TRUE, crashed}
         /\ last' = Call(op, tag, 0, 0, << >>, m_loadedTextures, 0, TRUE, out)

\* the same calls inside `if (NULL != m_pShaderManager)`
GuardedWrites(op, tag, writes, out) ==
    /\ uniforms' = IF m_pShaderManager # NULL THEN WriteAll(uniforms, writes) ELSE uniforms
    /\ crashed' = crashed
    /\ last' = Call(op, tag, 0, 0,
                    IF m_pShaderManager # NULL THEN Names(writes) ELSE << >>,
                    m_loadedTextures, 0, FALSE, out)

BinderFrame == UNCHANGED << alive, m_pShaderManager, m_basicMeshes, texVars,
                            m_objectMaterials, glVars, files, heapImages, histVars >>

\* SceneManager::SetTransformations
SetTransformations(scaleXYZ, XrotationDegrees, YrotationDegrees, ZrotationDegrees, positionXYZ) ==
    /\ Running
    /\ GuardedWrites("SetTransformations", "",
          << <<g_ModelName, ModelView(scaleXYZ, XrotationDegrees, YrotationDegrees,
                                      ZrotationDegrees, positionXYZ)>> >>,
          [scaleXYZ |-> scaleXYZ, XrotationDegrees |-> XrotationDegrees,
           YrotationDegrees |-> YrotationDegrees, ZrotationDegrees |-> ZrotationDegrees,
           positionXYZ |-> positionXYZ])
    /\ BinderFrame

\* SceneManager::SetShaderColor
SetShaderColor(redColorValue, greenColorValue, blueColorValue, alphaValue) ==
    /\ Running
    /\ GuardedWrites("SetShaderColor", "",
          << <<g_UseTextureName, 0>>,
             <<g_ColorValueName,
               <<redColorValue, greenColorValue, blueColorValue, alphaValue>> >> >>,
          NoMaterial)
    /\ BinderFrame

\* SceneManager::SetShaderTexture
SetShaderTexture(textureTag) ==
    /\ Running
    /\ GuardedWrites("SetShaderTexture", textureTag,
          << <<g_UseTextureName, 1>>,
             <<g_TextureValueName, FindTextureSlot(textureTag)>> >>,
          NoMaterial)
    /\ BinderFrame

\* SceneManager::SetTextureUVScale
SetTextureUVScale(u, v) ==
    /\ Running
    /\ GuardedWrites("SetTextureUVScale", "", << <<"UVscale", <<u, v>> >> >>, NoMaterial)
    /\ BinderFrame

(* -------------------------- material registry -------------------------- *)

\* lines 447-453
furmaterial == [ambientColor |-> <<100, 100, 100>>, ambientStrength |-> 300,
                diffuseColor |-> <<100, 100, 100>>, specularColor |-> <<100, 100, 100>>,
                shininess |-> 200, tag |-> "fur"]

\* lines 457-463
wallmaterial == [ambientColor |-> <<10, 10, 10>>, ambientStrength |-> 100,
                 diffuseColor |-> <<0, 0, 0>>, specularColor |-> <<0, 0, 0>>,
                 shininess |-> 100, tag |-> "wall"]

\* lines 455 and 465: the two push_back calls
PushedMaterials == << furmaterial, furmaterial >>

\* SceneManager::DefineObjectMaterials
DefineObjectMaterials ==
    /\ Running
    /\ m_objectMaterials' = m_objectMaterials \o PushedMaterials
    /\ defines' = defines + 1
    /\ last' = Call("DefineObjectMaterials", "", 0, 0, << >>, m_loadedTextures, 0,
                    FALSE, NoMaterial)
    /\ UNCHANGED << alive, crashed, m_pShaderManager, m_basicMeshes, texVars, glVars,
                    files, heapImages, uniforms, loadLog, destroys >>

\* the copy with the last assignment left out
CopyMaterialNoShininess(material, entry) ==
    [material EXCEPT !.ambientColor = entry.ambientColor,
                     !.ambientStrength = entry.ambientStrength,
                     !.diffuseColor = entry.diffuseColor,
                     !.specularColor = entry.specularColor]

\* lines 241-245: the five fields FindMaterial copies (the tag is not one of them)
CopyMaterial(material, entry) ==
    [material EXCEPT !.ambientColor = entry.ambientColor,
                     !.ambientStrength = entry.ambientStrength,
                     !.diffuseColor = entry.diffuseColor,
                     !.specularColor = entry.specularColor,
                     !.shininess = entry.shininess]

\* lines 234-251: the search loop; index counts from 1 in a sequence
RECURSIVE FindMaterialFrom(_, _, _)
FindMaterialFrom(tag, material, index) ==
    IF index <= Len(m_objectMaterials)
    THEN IF m_objectMaterials[index].tag = tag
         THEN CopyMaterial(material, m_objectMaterials[index])
         ELSE FindMaterialFrom(tag, material, index + 1)
    ELSE material

\* line 253: what the function returns once the loop has ended
FindMaterialReturn(tag) == TRUE

\* SceneManager::FindMaterial: the result and the out parameter after the call
FindMaterial(tag, material) ==
    IF Len(m_objectMaterials) = 0
    THEN [ret |-> FALSE, material |-> material]
    ELSE [ret |-> FindMaterialReturn(tag),
          material |-> FindMaterialFrom(tag, material, 1)]

\* the five uniform writes of lines 371-375
MaterialWrites(material) ==
    << <<"material.ambientColor", material.ambientColor>>,
       <<"material.ambientStrength", material.ambientStrength>>,
       <<"material.diffuseColor", material.diffuseColor>>,
       <<"material.specularColor", material.specularColor>>,
       <<"material.shininess", material.shininess>> >>

MaterialUniforms == {"material.ambientColor", "material.ambientStrength",
                     "material.diffuseColor", "material.specularColor",
                     "material.shininess"}

\* values an OBJECT_MATERIAL declared without an initialiser (line 365) can hold
Indeterminate ==
    {NoMaterial,
     [NoMaterial EXCEPT !.ambientColor = <<777, 777, 777>>, !.ambientStrength = 777,
                        !.diffuseColor = <<777, 777, 777>>,
                        !.specularColor = <<777, 777, 777>>, !.shininess = 777]}

\* SceneManager::SetShaderMaterial
SetShaderMaterial(materialTag) ==
    /\ Running
    /\ IF Len(m_objectMaterials) > 0
       THEN \E material \in Indeterminate :
               LET r == FindMaterial(materialTag, material)
               IN IF r.ret
                  THEN ThroughShader("SetShaderMaterial", materialTag,
                                     MaterialWrites(r.material), r.material)
                  ELSE /\ last' = Call("SetShaderMaterial", materialTag, 0, 0, << >>,
                                       m_loadedTextures, 0, FALSE, r.material)
                       /\ UNCHANGED << uniforms, crashed >>
       ELSE /\ last' = Call("SetShaderMaterial", materialTag, 0, 0, << >>,
                            m_loadedTextures, 0, FALSE, NoMaterial)
            /\ UNCHANGED << uniforms, crashed >>
    /\ BinderFrame

\* a caller of FindMaterial(tag, material): `material` is the caller's record
CallFindMaterial(tag, material) ==
    /\ Running
    /\ LET r == FindMaterial(tag, material)
       IN last' = [Call("FindMaterial", tag, 0, IF r.ret THEN 1 ELSE 0, << >>,
                        m_loadedTextures, 0, FALSE, r.material)
                   EXCEPT !.pre = Len(m_objectMaterials), !.arg = material]
    /\ UNCHANGED << uniforms, crashed >>
    /\ BinderFrame

\* lines 479-491
LightWrites ==
    << <<"lightSources[0].position", <<0, 3000, 20000>> >>,
       <<"lightSources[0].ambientColor", <<100, 100, 100>> >>,
       <<"lightSources[0].diffuseColor", <<200, 200, 200>> >>,
       <<"lightSources[0].specularColor", <<0, 0, 0>> >>,
       <<"lightSources[0].focalStrength", 12000>>,
       <<"lightSources[0].specularIntensity", 200>>,
       <<"lightSources[1].position", <<-3000, 4000, 6000>> >>,
       <<"lightSources[1].ambientColor", <<10, 10, 10>> >>,
       <<"lightSources[1].diffuseColor", <<500, 500, 500>> >>,
       <<"lightSources[1].specularColor", <<200, 200, 200>> >>,
       <<"lightSources[1].focalStrength", 32000>>,
       <<"lightSources[1].specularIntensity", 200>> >>

\* SceneManager::SetupSceneLights
SetupSceneLights ==
    /\ Running
    /\ ThroughShader("SetupSceneLights", "", LightWrites, NoMaterial)
    /\ BinderFrame

(* ----------------------------- mesh library ---------------------------- *)

\* m_basicMeshes->Load<Shape>Mesh()
LoadMesh(shape) ==
    /\ Running
    /\ m_basicMeshes' = m_basicMeshes \cup {shape}
    /\ last' = Call("LoadMesh", shape, 0, 0, << >>, m_loadedTextures, 0, FALSE, NoMaterial)
    /\ UNCHANGED << alive, crashed, m_pShaderManager, texVars, m_objectMaterials, glVars,
                    files, heapImages, uniforms, histVars >>

\* m_basicMeshes->Draw<Shape>Mesh()
DrawMesh(shape) ==
    /\ Running
    /\ last' = Call("Draw", shape, 0, 0, << >>, m_loadedTextures, 0, FALSE, NoMaterial)
    /\ UNCHANGED << alive, crashed, m_pShaderManager, m_basicMeshes, texVars,
                    m_objectMaterials, glVars, files, heapImages, uniforms, histVars >>

(* ------------------- PrepareScene and RenderScene ---------------------- *)

\* one call of a call sequence, with the source line that makes it
Step(op, line, tag, file, s, rx, ry, rz, p, u, v) ==
    [op |-> op, line |-> line, tag |-> tag, file |-> file, s |-> s,
     rx |-> rx, ry |-> ry, rz |-> rz, p |-> p, u |-> u, v |-> v]

Zero3 == <<0, 0, 0>>
Load(line, file, tag) == Step("CreateGLTexture", line, tag, file, Zero3, 0, 0, 0, Zero3, 0, 0)
Plain(op, line) == Step(op, line, "", "", Zero3, 0, 0, 0, Zero3, 0, 0)
Mesh(line, shape) == Step("LoadMesh", line, shape, "", Zero3, 0, 0, 0, Zero3, 0, 0)
Xf(line, s, rx, ry, rz, p) == Step("SetTransformations", line, "", "", s, rx, ry, rz, p, 0, 0)
Tex(line, tag) == Step("SetShaderTexture", line, tag, "", Zero3, 0, 0, 0, Zero3, 0, 0)
Mat(line, tag) == Step("SetShaderMaterial", line, tag, "", Zero3, 0, 0, 0, Zero3, 0, 0)
UV(line, u, v) == Step("SetTextureUVScale", line, "", "", Zero3, 0, 0, 0, Zero3, u, v)
Draw(line, shape) == Step("Draw", line, shape, "", Zero3, 0, 0, 0, Zero3, 0, 0)

\* SceneManager::LoadSceneTextures
LoadSceneTexturesCalls ==
    << Load(397, TexturePath("bluefur.jpg"), "fur"),
       Load(401, TexturePath("blackplastic.jpg"), "black"),
       Load(405, TexturePath("glass.jpg"), "glass"),
       Load(409, TexturePath("drywall.jpg"), "wall"),
       Load(413, TexturePath("keyboard.jpg"), "keyboard"),
       Load(417, TexturePath("screen.jpg"), "screen"),
       Load(421, TexturePath("book.jpg"), "book"),
       Load(424, TexturePath("pages.jpg"), "pages"),
       Load(427, TexturePath("headphones.jpg"), "headphones"),
       Load(430, TexturePath("room.jpg"), "floor"),
       Plain("BindGLTextures", 436) >>

\* SceneManager::PrepareScene
PrepareSceneCalls ==
    LoadSceneTexturesCalls \o
    << Plain("DefineObjectMaterials", 506), Plain("SetupSceneLights", 507),
       Mesh(508, "Plane"), Mesh(509, "Box"), Mesh(510, "Prism"), Mesh(511, "Cylinder"),
       Mesh(512, "TaperedCylinder"), Mesh(513, "Cone"), Mesh(514, "Sphere"),
       Mesh(515, "Torus") >>

\* SceneManager::RenderScene: its own calls, before the four composers
RenderSceneCalls ==
    << Xf(549, <<15000, 500, 15000>>, 0, 0, 0, <<0, -2000, 0>>),
         Tex(556, "glass"), Mat(557, "wall"), UV(558, 1000, 1000), Draw(561, "Cylinder"),
       Xf(576, <<50000, 1000, 50000>>, 90, 0, 0, <<0, 15000, -20000>>),
         Tex(583, "wall"), Mat(584, "wall"), UV(585, 1000, 1000), Draw(586, "Plane"),
       Xf(601, <<50000, 1000, 50000>>, 0, 0, 0, <<0, -27500, 0>>),
         Tex(608, "floor"), UV(609, 1000, 1000), Mat(610, "wall"), Draw(612, "Plane") >>

\* SceneManager::RenderDolphin
RenderDolphinCalls ==
    << Xf(642, <<2000, 5000, 2000>>, 0, 45, 90, <<7000, 1000, 7000>>),
         Tex(650, "fur"), UV(651, 1000, 1000), Mat(652, "fur"), Draw(655, "Cylinder"),
       Xf(671, <<2000, 4000, 2000>>, 0, 45, 270, <<7000, 1000, 7000>>),
         Tex(679, "fur"), UV(680, 1000, 1000), Mat(681, "fur"), Draw(684, "TaperedCylinder"),
       Xf(700, <<2000, 2000, 2000>>, 0, 0, 0, <<3000, 1000, 11000>>),
         Tex(708, "fur"), UV(709, 1000, 1000), Mat(710, "fur"), Draw(713, "Sphere"),
       Xf(729, <<1000, 2000, 1000>>, 0, 45, 100, <<2000, 500, 12000>>),
         Tex(737, "fur"), UV(738, 1000, 1000), Mat(739, "fur"), Draw(742, "Cone"),
       Xf(758, <<900, 900, 900>>, 0, 0, 0, <<9950, 1050, 4250>>),
         Tex(766, "fur"), UV(767, 1000, 1000), Mat(768, "fur"), Draw(771, "Sphere"),
       Xf(787, <<1000, 250, 1500>>, -90, 0, 45, <<5000, 3500, 9000>>),
         Tex(795, "fur"), UV(796, 1000, 1000), Mat(797, "fur"), Draw(800, "Prism"),
       Xf(816, <<1000, 500, 2000>>, 15, 25, 0, <<6000, 0, 11500>>),
         Tex(824, "fur"), UV(825, 1000, 1000), Mat(826, "fur"), Draw(829, "Prism"),
       Xf(845, <<2000, 500, 2000>>, 10, -45, 0, <<10800, 1000, 4000>>),
         Tex(853, "fur"), Mat(854, "fur"), UV(855, 1000, 1000), Draw(858, "Prism"),
       Xf(874, <<250, 450, 250>>, 0, 0, 0, <<3250, 1600, 13150>>),
         Tex(882, "black"), Mat(883, "fur"), UV(884, 1000, 1000), Draw(887, "Sphere"),
       Xf(902, <<250, 450, 250>>, 0, 0, 0, <<1250, 1600, 11000>>),
         Tex(910, "black"), Mat(911, "fur"), UV(912, 1000, 1000), Draw(915, "Sphere") >>

\* the laptop whose keyboard selects a material of its own
RenderLaptopCallsWithMaterial ==
    << Xf(938, <<10250, 200, 8250>>, 5, 0, 0, <<-500, 0, 4000>>),
         Tex(944, "keyboard"), UV(945, 1000, 1000), Mat(945, "wall"), Draw(946, "Box"),
       Xf(958, <<10250, 200, 8250>>, 90, 0, 0, <<-500, 3000, -500>>),
         Tex(964, "screen"), UV(965, 1000, 1000), Draw(966, "Box") >>

\* SceneManager::RenderLaptop
RenderLaptopCalls ==
    << Xf(938, <<10250, 200, 8250>>, 5, 0, 0, <<-500, 0, 4000>>),
         Tex(944, "keyboard"), UV(945, 1000, 1000), Draw(946, "Box"),
       Xf(958, <<10250, 200, 8250>>, 90, 0, 0, <<-500, 3000, -500>>),
         Tex(964, "screen"), UV(965, 1000, 1000), Draw(966, "Box") >>

\* the book whose pages are drawn under the transform of its cover
RenderBookCallsOneTransform ==
    << Xf(987, <<7000, 1500, 5000>>, 0, -20, 0, <<-5500, 0, 9750>>),
         Tex(993, "book"), UV(994, 1000, 1000), Draw(995, "Box"),
         Tex(1011, "pages"), UV(1012, 1000, 1000), Draw(1013, "Box") >>

\* SceneManager::RenderBook
RenderBookCalls ==
    << Xf(987, <<7000, 1500, 5000>>, 0, -20, 0, <<-5500, 0, 9750>>),
         Tex(993, "book"), UV(994, 1000, 1000), Draw(995, "Box"),
       Xf(1005, <<6800, 1300, 4800>>, 0, -20, 0, <<-5375, 0, 9750>>),
         Tex(1011, "pages"), UV(1012, 1000, 1000), Draw(1013, "Box") >>

\* SceneManager::RenderHeadPhones
RenderHeadPhonesCalls ==
    << Xf(1033, <<2500, 2500, 1500>>, 90, 0, 0, <<-5375, 1000, 9750>>),
         Tex(1039, "black"), UV(1040, 1000, 1000), Draw(1041, "Torus"),
       Xf(1051, <<1650, 750, 1650>>, 0, 0, 0, <<-3750, 800, 11500>>),
         Tex(1057, "headphones"), UV(1058, 1000, 1000), Draw(1059, "TaperedCylinder"),
       Xf(1069, <<1650, 750, 1650>>, 0, 0, 0, <<-3000, 800, 9750>>),
         Tex(1075, "headphones"), UV(1076, 1000, 1000), Draw(1077, "TaperedCylinder") >>

\* the book composed before the laptop
FrameCallsBookFirst ==
    RenderSceneCalls \o RenderDolphinCalls \o RenderBookCalls \o RenderLaptopCalls
        \o RenderHeadPhonesCalls

\* lines 524-619: RenderScene with the composers it calls at lines 613-616
FrameCalls ==
    RenderSceneCalls \o RenderDolphinCalls \o RenderLaptopCalls \o RenderBookCalls
        \o RenderHeadPhonesCalls

FirstFramePc == Len(PrepareSceneCalls) + 1
EndPc == Len(PrepareSceneCalls) + Len(FrameCalls) + 1

\* the tag of the last `op` call in a list of calls, "none" when there is none
RECURSIVE LastTag(_, _)
LastTag(calls, op) ==
    IF calls = << >> THEN "none"
    ELSE IF calls[Len(calls)].op = op THEN calls[Len(calls)].tag
    ELSE LastTag(SubSeq(calls, 1, Len(calls) - 1), op)

\* a draw call, with the texture and the material its own calls selected
DrawRecord(shape, calls) ==
    [shape |-> shape, tex |-> LastTag(calls, "SetShaderTexture"),
     mat |-> LastTag(calls, "SetShaderMaterial")]

Logged ==
    /\ sinceDraw' = Append(sinceDraw,
                           [op |-> last'.op, tag |-> last'.tag, writes |-> last'.writes])
    /\ UNCHANGED draws

\* the next call of PrepareScene
PrepareStep ==
    /\ pc < FirstFramePc
    /\ LET c == PrepareSceneCalls[pc]
       IN \/ c.op = "CreateGLTexture" /\ CreateGLTexture(c.file, c.tag)
          \/ c.op = "BindGLTextures" /\ BindGLTextures
          \/ c.op = "DefineObjectMaterials" /\ DefineObjectMaterials
          \/ c.op = "SetupSceneLights" /\ SetupSceneLights
          \/ c.op = "LoadMesh" /\ LoadMesh(c.tag)
    /\ pc' = pc + 1
    /\ UNCHANGED << frame, draws, sinceDraw >>

\* the main loop enters RenderScene
StartFrame ==
    /\ Running
    /\ pc \in {FirstFramePc, EndPc}
    /\ frame < MaxFrames
    /\ frame' = frame + 1
    /\ pc' = FirstFramePc
    /\ draws' = << >>
    /\ sinceDraw' = << >>
    /\ last' = Call("RenderScene", "", 0, 0, << >>, m_loadedTextures, 0, FALSE, NoMaterial)
    /\ UNCHANGED << alive, crashed, m_pShaderManager, m_basicMeshes, texVars,
                    m_objectMaterials, glVars, files, heapImages, uniforms, histVars >>

\* the next call of RenderScene
RenderStep ==
    /\ pc >= FirstFramePc /\ pc < EndPc
    /\ frame > 0
    /\ (pc = FirstFramePc => last.op = "RenderScene")
    /\ LET c == FrameCalls[pc - FirstFramePc + 1]
       IN \/ /\ c.op = "SetTransformations"
             /\ SetTransformations(c.s, c.rx, c.ry, c.rz, c.p)
             /\ Logged
          \/ c.op = "SetShaderTexture" /\ SetShaderTexture(c.tag) /\ Logged
          \/ c.op = "SetShaderMaterial" /\ SetShaderMaterial(c.tag) /\ Logged
          \/ c.op = "SetTextureUVScale" /\ SetTextureUVScale(c.u, c.v) /\ Logged
          \/ /\ c.op = "Draw"
             /\ DrawMesh(c.tag)
             /\ draws' = Append(draws, DrawRecord(c.tag, sinceDraw))
             /\ sinceDraw' = << >>
    /\ pc' = pc + 1
    /\ UNCHANGED frame

(* --------------------------- specifications ---------------------------- *)

Tags == {"fur", "wall"}

\* the (file, tag) pairs CreateGLTexture is called with: each kind of file, and
\* the 3-channel file under either tag
LoadInputs ==
    {<<"rgb.jpg", "fur">>, <<"rgb.jpg", "wall">>, <<"rgba.png", "fur">>,
     <<"gray.jpg", "wall">>, <<"missing.jpg", "wall">>}

\* the texture registry and the GL objects behind it, under any order of calls
Next ==
    \/ \E in \in LoadInputs :
          /\ files[in[1]] = 0 \/ m_loadedTextures + heapImages < MaxLoads
          /\ CreateGLTexture(in[1], in[2])
          /\ UNCHANGED frameVars
    \/ BindGLTextures /\ UNCHANGED frameVars
    \/ destroys < MaxDestroys /\ DestroyGLTextures /\ UNCHANGED frameVars
    \/ Destructor /\ UNCHANGED frameVars
    \/ \E tag \in Tags : SetShaderTexture(tag) /\ UNCHANGED frameVars

\* the constructor, run on the disk as installed
InitInstalled == Init /\ files = InstalledFiles

Spec == InitInstalled /\ [][Next]_vars

\* the registry filled slot by slot, each load under a tag of its own
FillTag(i) == "texture" \o ToString(i)

NextFill ==
    \/ \E f \in {"rgb.jpg", "gray.jpg", "missing.jpg"} :
          /\ files[f] = 0 \/ m_loadedTextures < MaxFillLoads
          /\ files[f] \in {0, 3} \/ heapImages < MaxFillRejects
          /\ CreateGLTexture(f, FillTag(m_loadedTextures))
          /\ UNCHANGED frameVars
    \/ BindGLTextures /\ UNCHANGED frameVars

SpecFill == InitInstalled /\ [][NextFill]_vars

\* the material registry and the uniform-writing operations, under any order of calls
MaterialTags == {"fur", "wall", "unknown"}

CallerMaterials == {NoMaterial, wallmaterial}

NextMaterial ==
    \/ defines < MaxDefines /\ DefineObjectMaterials /\ UNCHANGED frameVars
    \/ \E tag \in MaterialTags : SetShaderMaterial(tag) /\ UNCHANGED frameVars
    \/ \E tag \in MaterialTags, m \in CallerMaterials :
          CallFindMaterial(tag, m) /\ UNCHANGED frameVars
    \/ SetupSceneLights /\ UNCHANGED frameVars
    \/ SetShaderTexture("fur") /\ UNCHANGED frameVars
    \/ SetShaderColor(1000, 0, 0, 1000) /\ UNCHANGED frameVars
    \/ \E u \in {1000, 2000} : SetTextureUVScale(u, 1000) /\ UNCHANGED frameVars
    \/ \E rx \in {0, 90} :
          SetTransformations(<<2000, 3000, 4000>>, rx, 0, 0, <<5000, 6000, 7000>>)
          /\ UNCHANGED frameVars

SpecMaterial == InitInstalled /\ [][NextMaterial]_vars

\* line 455: m_objectMaterials.push_back(material), for any material
PushBackMaterial(material) ==
    /\ Running
    /\ m_objectMaterials' = Append(m_objectMaterials, material)
    /\ last' = [Call("push_back", material.tag, 0, 0, << >>, m_loadedTextures, 0, FALSE,
                     material)
                EXCEPT !.pre = Len(m_objectMaterials)]
    /\ UNCHANGED << alive, crashed, m_pShaderManager, m_basicMeshes, texVars, glVars,
                    files, heapImages, uniforms, histVars >>

\* a second material built under the tag "fur", with other coefficients
glossyfur == [furmaterial EXCEPT !.specularColor = <<900, 900, 900>>, !.shininess = 32000]

PushInputs == {furmaterial, wallmaterial, glossyfur}

\* the material registry under any order of registrations and lookups
NextRegister ==
    \/ \E m \in PushInputs :
          /\ Len(m_objectMaterials) < MaxMaterials
          /\ PushBackMaterial(m)
          /\ UNCHANGED frameVars
    \/ \E tag \in MaterialTags, m \in CallerMaterials :
          CallFindMaterial(tag, m) /\ UNCHANGED frameVars
    \/ \E tag \in MaterialTags : SetShaderMaterial(tag) /\ UNCHANGED frameVars

SpecRegister == InitInstalled /\ [][NextRegister]_vars

\* scales, angles and positions that tell the five factors and their order apart
TransformScales == {<<1000, 1000, 1000>>, <<2000, 3000, 4000>>}

TransformAngles == {0, 90, 180}

TransformPositions == {<<0, 0, 0>>, <<5000, 6000, 7000>>}

\* SetTransformations on any of these inputs, between other binder calls
NextTransform ==
    \/ \E s \in TransformScales, rx \in TransformAngles, ry \in TransformAngles,
          rz \in TransformAngles, p \in TransformPositions :
          SetTransformations(s, rx, ry, rz, p) /\ UNCHANGED frameVars
    \/ SetShaderColor(1000, 0, 0, 1000) /\ UNCHANGED frameVars

SpecTransform == InitInstalled /\ [][NextTransform]_vars

\* the program's run: PrepareScene once, then RenderScene once per frame
NextFrame == PrepareStep \/ StartFrame \/ RenderStep

SpecFrame == Init /\ [][NextFrame]_vars

(* ------------------------------- claims -------------------------------- *)

LiveNames == (DOMAIN glTexImage) \ glDeleted

HasMaterial(tag) == \E i \in 1..Len(m_objectMaterials) : m_objectMaterials[i].tag = tag

DistinctTags(log) ==
    \A i, j \in 1..Len(log) : i # j => log[i][1] # log[j][1]

\* C1: after successful loads under pairwise distinct tags (at most 16 of them, no
\* DestroyGLTextures since), FindTextureSlot of the tag of load i is i, FindTextureID
\* of it is the handle glGenTextures gave load i, and right after BindGLTextures
\* texture unit i has that handle bound.
C1_ResolveInsertionOrder ==
    (Len(loadLog) <= NumSlots /\ DistinctTags(loadLog) /\ destroys = 0) =>
        \A i \in 1..Len(loadLog) :
            /\ FindTextureSlot(loadLog[i][1]) = i - 1
            /\ FindTextureID(loadLog[i][1]) = loadLog[i][2]
            /\ (last.op = "BindGLTextures" => glBound[i - 1] = loadLog[i][2])

\* C1 witness: all 16 slots filled, with rejected loads in between (so that handles
\* and slots differ), and BindGLTextures just run.
C1_Witness ==
    /\ last.op = "BindGLTextures"
    /\ Len(loadLog) = NumSlots
    /\ heapImages > 0
    /\ loadLog[NumSlots][2] # NumSlots
    /\ glBound[NumSlots - 1] = loadLog[NumSlots][2]

\* C2: the registry never holds more than 16 entries: a CreateGLTexture issued with
\* 16 entries live returns false and stores nothing.
C2_SeventeenthLoadRejected ==
    /\ m_loadedTextures <= NumSlots
    /\ DOMAIN m_textureIDs = 0..(NumSlots - 1)
    /\ (last.op = "CreateGLTexture" /\ last.pre >= NumSlots => last.ret = 0)

\* C3: SetShaderMaterial(tag) writes no uniform when no registered material has
\* the tag, whether the registry is empty or not.
C3_MissWritesNothing ==
    (last.op = "SetShaderMaterial" /\ ~HasMaterial(last.tag)) =>
        last.writes = << >>

\* C4: FindMaterial(tag, out) returns true exactly when a registered material has
\* the tag, and leaves out untouched when it returns false.
C4_FoundIffRegistered ==
    last.op = "FindMaterial" =>
        /\ (last.ret = 1) <=> HasMaterial(last.tag)
        /\ (last.ret = 0 => last.out = last.arg)

\* C5: a CreateGLTexture of an image with a channel count other than 3 or 4 returns
\* false, appends no entry, and has released the texture name it generated and the
\* decoded pixel buffer when it returns.
C5_RejectLeaksNothing ==
    (last.op = "CreateGLTexture" /\ last.ch \notin {0, 3, 4}) =>
        /\ last.ret = 0
        /\ m_loadedTextures = last.pre
        /\ last.gen \notin LiveNames
        /\ heapImages = 0

\* C6: when CreateGLTexture returns, on any path, the texture it bound to
\* GL_TEXTURE_2D is bound no more: nothing is bound to the active unit.
C6_NothingLeftBound ==
    (last.op = "CreateGLTexture" /\ last.gen # 0) => glBound[glActiveUnit] = 0

\* C7: with m_pShaderManager NULL, every uniform-writing operation writes nothing
\* and does not dereference the pointer.
C7_NullShaderIsNoOp ==
    m_pShaderManager = NULL => (last.writes = << >> /\ ~last.nullDeref /\ ~crashed)

\* C8: after DestroyGLTextures (and after the destructor) every handle a successful
\* load registered is released, the registry is empty, and both Find functions
\* return -1 for every tag.
C8_DestroyReleasesAll ==
    last.op \in {"DestroyGLTextures", "~SceneManager"} =>
        /\ \A i \in 1..Len(loadLog) : loadLog[i][2] \notin LiveNames
        /\ m_loadedTextures = 0
        /\ \A tag \in Tags : FindTextureSlot(tag) = -1 /\ FindTextureID(tag) = -1

D(shape, tex, mat) == [shape |-> shape, tex |-> tex, mat |-> mat]

ExpectedDraws ==
    << D("Cylinder", "glass", "wall"), D("Plane", "wall", "wall"),
       D("Plane", "floor", "wall"), D("Cylinder", "fur", "fur"),
       D("TaperedCylinder", "fur", "fur"), D("Sphere", "fur", "fur"),
       D("Cone", "fur", "fur"), D("Sphere", "fur", "fur"),
       D("Prism", "fur", "fur"), D("Prism", "fur", "fur"), D("Prism", "fur", "fur"),
       D("Sphere", "black", "fur"), D("Sphere", "black", "fur"),
       D("Box", "keyboard", "none"), D("Box", "screen", "none"),
       D("Box", "book", "none"), D("Box", "pages", "none"),
       D("Torus", "black", "none"),
       D("TaperedCylinder", "headphones", "none"),
       D("TaperedCylinder", "headphones", "none") >>

\* C9: a run of RenderScene issues exactly 20 draw calls, in the listed order of
\* (shape, texture tag, material tag set for the draw): at every point of the run
\* the draws issued are the first ones of the list, and at its end all 20.
C9_DrawSequence ==
    /\ Len(draws) <= Len(ExpectedDraws)
    /\ draws = SubSeq(ExpectedDraws, 1, Len(draws))
    /\ (pc = EndPc => Len(draws) = 20)

\* C9 witness: the second run of RenderScene has ended, with 20 draws issued.
C9_Witness == pc = EndPc /\ frame = MaxFrames /\ Len(draws) = 20 /\ last.op = "Draw"

\* the five coefficients of two materials agree
SameCoefficients(a, b) == [a EXCEPT !.tag = ""] = [b EXCEPT !.tag = ""]

\* C10: once DefineObjectMaterials has run, FindMaterial finds "fur" and "wall",
\* each with the coefficients of the material built under that tag.
C10_FurAndWallRegistered ==
    defines > 0 =>
        /\ HasMaterial("fur") /\ HasMaterial("wall")
        /\ SameCoefficients(FindMaterial("fur", NoMaterial).material, furmaterial)
        /\ SameCoefficients(FindMaterial("wall", NoMaterial).material, wallmaterial)

\* the position of the earliest registered material with the tag
FirstWithTag(tag) ==
    CHOOSE i \in 1..Len(m_objectMaterials) :
        /\ m_objectMaterials[i].tag = tag
        /\ \A j \in 1..(i - 1) : m_objectMaterials[j].tag # tag

\* C11 as stated: right after a material m is registered, FindMaterial(m.tag, out)
\* returns true and leaves out equal to m in every field, the tag included.
C11_ResolveReturnsCopy ==
    last.op = "push_back" =>
        \A c \in CallerMaterials :
            /\ FindMaterial(last.arg.tag, c).ret
            /\ FindMaterial(last.arg.tag, c).material = last.arg

\* C11 amended: right after a material m is registered, FindMaterial(m.tag, out)
\* returns true and gives out the five coefficients of the earliest registered
\* material with that tag (m's own when no earlier one has it); out's tag is
\* left as the caller had it.
C11_ResolveReturnsCoefficients ==
    last.op = "push_back" =>
        \A c \in CallerMaterials :
            LET r == FindMaterial(last.arg.tag, c)
                first == m_objectMaterials[FirstWithTag(last.arg.tag)]
            IN /\ r.ret
               /\ SameCoefficients(r.material, first)
               /\ r.material.tag = c.tag
               /\ (FirstWithTag(last.arg.tag) = Len(m_objectMaterials)
                      => SameCoefficients(r.material, last.arg))

\* C11 witness: a material registered into a non-empty registry that held none of
\* its tag, and resolving to its own coefficients.
C11_Witness ==
    /\ last.op = "push_back"
    /\ last.pre = 2
    /\ last.arg = glossyfur
    /\ FirstWithTag("fur") = 3
    /\ SameCoefficients(FindMaterial("fur", NoMaterial).material, glossyfur)
    /\ FindMaterial("fur", NoMaterial).material.tag = ""

\* some successful load registered the tag
Registered(tag) == \E i \in 1..Len(loadLog) : loadLog[i][1] = tag

\* what SetShaderTexture has just written for a tag that resolves to no slot
WroteNoSlot ==
    /\ g_UseTextureName \in DOMAIN uniforms
    /\ g_TextureValueName \in DOMAIN uniforms
    /\ uniforms[g_UseTextureName] = 1
    /\ uniforms[g_TextureValueName] = -1

\* C12 as stated: a CreateGLTexture of an undecodable file returns false and leaves
\* the entry count as it was; its tag then resolves to -1 from FindTextureSlot and
\* FindTextureID, and SetShaderTexture on a tag that resolves to no slot leaves
\* bUseTexture = 1 and objectTexture = -1 (on a bound shader: the setters write
\* nothing without one).
C12_FailedLoadResolvesMinusOne ==
    /\ (last.op = "CreateGLTexture" /\ last.ch = 0) =>
          /\ last.ret = 0
          /\ m_loadedTextures = last.pre
          /\ FindTextureSlot(last.tag) = -1
          /\ FindTextureID(last.tag) = -1
    /\ (last.op = "SetShaderTexture" /\ FindTextureSlot(last.tag) = -1
          /\ m_pShaderManager # NULL) => WroteNoSlot

\* the state part of C12 amended
C12_UnregisteredTag ==
    /\ (last.op = "CreateGLTexture" /\ last.ch = 0) => last.ret = 0
    /\ (last.op = "CreateGLTexture" /\ last.ch = 0 /\ ~Registered(last.tag)) =>
          /\ FindTextureSlot(last.tag) = -1
          /\ FindTextureID(last.tag) = -1
    /\ (last.op = "SetShaderTexture" /\ ~Registered(last.tag) /\ m_pShaderManager # NULL) =>
          /\ WroteNoSlot
          /\ last.writes = << g_UseTextureName, g_TextureValueName >>

\* C12 amended: a CreateGLTexture of an undecodable file returns false and changes
\* neither m_loadedTextures nor any slot of m_textureIDs; while no successful load
\* has registered its tag, the tag resolves to -1 from FindTextureSlot and
\* FindTextureID, and SetShaderTexture on it writes bUseTexture = 1 and
\* objectTexture = -1 (on a bound shader).
C12_FailedLoadChangesNothing ==
    /\ [][(last'.op = "CreateGLTexture" /\ last'.ch = 0) =>
            (m_textureIDs' = m_textureIDs /\ m_loadedTextures' = m_loadedTextures)]_vars
    /\ []C12_UnregisteredTag

\* C12 witness: the load of "wall" has just failed on a registry that holds another
\* tag, and the uniforms hold what SetShaderTexture wrote for the unresolved tag.
C12_Witness ==
    /\ last.op = "CreateGLTexture" /\ last.ch = 0 /\ last.ret = 0 /\ last.tag = "wall"
    /\ m_loadedTextures = 2
    /\ ~Registered("wall")
    /\ FindTextureSlot("wall") = -1 /\ FindTextureID("wall") = -1
    /\ WroteNoSlot

\* C13: in every state the tags of the registered entries of m_textureIDs (slots
\* 0 .. m_loadedTextures - 1) are pairwise distinct, whatever CreateGLTexture calls
\* were made, calls with an already registered tag included.
C13_TagsPairwiseDistinct ==
    \A i, j \in 0..(m_loadedTextures - 1) :
        (i # j /\ i < NumSlots /\ j < NumSlots) => m_textureIDs[i].tag # m_textureIDs[j].tag

\* the image of a homogeneous point under each factor, applied to the point itself
ScalePoint(s, p) == << Round(s[1] * p[1]), Round(s[2] * p[2]), Round(s[3] * p[3]), p[4] >>

RotateZPoint(deg, p) ==
    << Round(Cos(deg) * p[1] - Sin(deg) * p[2]), Round(Sin(deg) * p[1] + Cos(deg) * p[2]),
       p[3], p[4] >>

RotateYPoint(deg, p) ==
    << Round(Cos(deg) * p[1] + Sin(deg) * p[3]), p[2],
       Round(Cos(deg) * p[3] - Sin(deg) * p[1]), p[4] >>

RotateXPoint(deg, p) ==
    << p[1], Round(Cos(deg) * p[2] - Sin(deg) * p[3]),
       Round(Sin(deg) * p[2] + Cos(deg) * p[3]), p[4] >>

TranslatePoint(t, p) ==
    << p[1] + Round(t[1] * p[4]), p[2] + Round(t[2] * p[4]), p[3] + Round(t[3] * p[4]), p[4] >>

\* scale first, then the Z, Y and X rotations, then the translation
Image(a, p) ==
    TranslatePoint(a.positionXYZ,
        RotateXPoint(a.XrotationDegrees,
            RotateYPoint(a.YrotationDegrees,
                RotateZPoint(a.ZrotationDegrees, ScalePoint(a.scaleXYZ, p)))))

\* the three unit directions and the origin
UnitPoint(j) == [i \in 1..4 |-> IF i = j THEN 1000 ELSE 0]

\* C14: the matrix SetTransformations writes to `model` is T * Rx * Ry * Rz * S in
\* that order: its column j is the image of unit point j under S, then Rz, then Ry,
\* then Rx, then T; with zero rotations, s = (2,3,4) and t = (5,6,7) it is
\* diag(2,3,4) with translation column (5,6,7,1).
C14_ModelIsTRS ==
    (last.op = "SetTransformations" /\ m_pShaderManager # NULL) =>
        /\ last.writes = << g_ModelName >>
        /\ \A i, j \in 1..4 : uniforms[g_ModelName][i][j] = Image(last.arg, UnitPoint(j))[i]
        /\ (/\ last.arg.scaleXYZ = <<2000, 3000, 4000>>
            /\ last.arg.positionXYZ = <<5000, 6000, 7000>>
            /\ last.arg.XrotationDegrees = 0
            /\ last.arg.YrotationDegrees = 0
            /\ last.arg.ZrotationDegrees = 0)
           => uniforms[g_ModelName] = << <<2000, 0, 0, 5000>>, <<0, 3000, 0, 6000>>,
                                         <<0, 0, 4000, 7000>>, <<0, 0, 0, 1000>> >>

\* C14 witness: a transform with a quarter turn about X and a half turn about Z, the
\* scale (2,3,4) and the position (5,6,7) has just been written.
C14_Witness ==
    /\ last.op = "SetTransformations" /\ m_pShaderManager # NULL
    /\ last.arg.scaleXYZ = <<2000, 3000, 4000>>
    /\ last.arg.positionXYZ = <<5000, 6000, 7000>>
    /\ last.arg.XrotationDegrees = 90
    /\ last.arg.YrotationDegrees = 0
    /\ last.arg.ZrotationDegrees = 180
    /\ uniforms[g_ModelName] = << <<-2000, 0, 0, 5000>>, <<0, 0, -4000, 6000>>,
                                  <<0, -3000, 0, 7000>>, <<0, 0, 0, 1000>> >>

\* the frame is about to issue a draw call: sinceDraw holds the calls made for it
AtDraw ==
    /\ frame > 0
    /\ pc >= FirstFramePc /\ pc < EndPc
    /\ FrameCalls[pc - FirstFramePc + 1].op = "Draw"

\* positions in sinceDraw of the calls of one operation
CallsOf(op) == {k \in 1..Len(sinceDraw) : sinceDraw[k].op = op}

\* C15: at every draw call of the frame, the calls made since the previous draw (or
\* the frame start) begin with the one SetTransformations, followed only by texture,
\* material and UV-scale calls, among them a SetShaderTexture and after it a
\* SetTextureUVScale; on a bound shader these write `model` first, then bUseTexture
\* and objectTexture, then UVscale, all before the draw.
C15_WritesPrecedeDraw ==
    AtDraw =>
        /\ CallsOf("SetTransformations") = {1}
        /\ \A k \in 2..Len(sinceDraw) :
              sinceDraw[k].op \in {"SetShaderTexture", "SetShaderMaterial", "SetTextureUVScale"}
        /\ \E k \in CallsOf("SetShaderTexture") : \E n \in CallsOf("SetTextureUVScale") : k < n
        /\ m_pShaderManager # NULL =>
              /\ sinceDraw[1].writes = << g_ModelName >>
              /\ \A k \in CallsOf("SetShaderTexture") :
                    sinceDraw[k].writes = << g_UseTextureName, g_TextureValueName >>
              /\ \A k \in CallsOf("SetTextureUVScale") : sinceDraw[k].writes = << "UVscale" >>

\* C15 witness: the second frame is about to draw the book's pages, its transform,
\* texture and UV scale written since the draw of the cover.
C15_Witness ==
    /\ AtDraw /\ frame = MaxFrames /\ Len(draws) = 16
    /\ m_pShaderManager # NULL
    /\ Len(sinceDraw) = 3
    /\ sinceDraw[1].writes = << g_ModelName >>
    /\ sinceDraw[2].op = "SetShaderTexture" /\ sinceDraw[2].tag = "pages"
    /\ sinceDraw[3].writes = << "UVscale" >>

\* the first call of RenderLaptop: the dolphin's last draw is the call before it
AfterDolphinPc == FirstFramePc + Len(RenderSceneCalls) + Len(RenderDolphinCalls)

\* the number of the dolphin's last draw among the draws of a frame
LastDolphinDraw ==
    Cardinality({k \in 1..(AfterDolphinPc - FirstFramePc) : FrameCalls[k].op = "Draw"})

\* the material uniforms a shader holds, with their values
MaterialPart(u) == [n \in MaterialUniforms \cap DOMAIN u |-> u[n]]

\* the draws of RenderLaptop, RenderBook and RenderHeadPhones had no SetShaderMaterial
\* call of their own
C16_NoMaterialSelected ==
    \A k \in (LastDolphinDraw + 1)..Len(draws) : draws[k].mat = "none"

\* C16: no call made from RenderLaptop, RenderBook or RenderHeadPhones is a
\* SetShaderMaterial and none changes a material uniform, so at each of their seven
\* draws the five material uniforms hold the values they had after the last draw of
\* RenderDolphin in the same frame.
C16_MaterialCarriedOver ==
    /\ [][(frame > 0 /\ pc >= AfterDolphinPc /\ pc < EndPc /\ pc' = pc + 1) =>
            /\ last'.op # "SetShaderMaterial"
            /\ MaterialPart(uniforms') = MaterialPart(uniforms)]_vars
    /\ []C16_NoMaterialSelected

\* C16 witness: the last headphones draw of the second frame is done, seven draws
\* after the dolphin's last, with the material uniforms still those of "fur".
C16_Witness ==
    /\ pc = EndPc /\ frame = MaxFrames /\ last.op = "Draw"
    /\ Len(draws) = LastDolphinDraw + 7
    /\ draws[LastDolphinDraw].mat = "fur" /\ draws[LastDolphinDraw + 7].mat = "none"
    /\ m_pShaderManager # NULL
    /\ MaterialPart(uniforms) = MaterialPart(WriteAll(EmptyFn, MaterialWrites(furmaterial)))
    /\ DOMAIN MaterialPart(uniforms) = MaterialUniforms

\* the first successful load under a tag, among the successful loads in order
EarliestLoad(tag) ==
    CHOOSE i \in 1..Len(loadLog) :
        /\ loadLog[i][1] = tag
        /\ \A j \in 1..(i - 1) : loadLog[j][1] # tag

\* C17: a successful CreateGLTexture appends an entry at the next slot whether or not
\* its tag is already registered; FindTextureSlot and FindTextureID of a tag answer
\* the slot and the stored handle of the earliest entry with that tag (the handle
\* its load got, while no DestroyGLTextures has run), never a later one; in every
\* state FindTextureID(tag) is the ID stored at slot FindTextureSlot(tag), and both
\* are -1 when no entry has the tag.
C17_EarliestEntryWins ==
    /\ (last.op = "CreateGLTexture" /\ last.ret = 1) =>
          /\ m_loadedTextures = last.pre + 1
          /\ m_textureIDs[last.pre] = [tag |-> last.tag, ID |-> last.gen]
          /\ Len(loadLog) = m_loadedTextures
    /\ \A tag \in Tags :
          IF Registered(tag)
          THEN /\ FindTextureSlot(tag) = EarliestLoad(tag) - 1
               /\ FindTextureID(tag) = m_textureIDs[FindTextureSlot(tag)].ID
               /\ (destroys = 0 => FindTextureID(tag) = loadLog[EarliestLoad(tag)][2])
          ELSE FindTextureSlot(tag) = -1 /\ FindTextureID(tag) = -1

\* C17 witness: "fur" has just been loaded a second time, into slot 2 after a "wall"
\* entry, and still resolves to slot 0 and the handle of its first load.
C17_Witness ==
    /\ last.op = "CreateGLTexture" /\ last.ret = 1 /\ last.tag = "fur" /\ last.pre = 2
    /\ destroys = 0
    /\ loadLog[1][1] = "fur" /\ loadLog[2][1] = "wall" /\ loadLog[3][1] = "fur"
    /\ m_loadedTextures = 3
    /\ FindTextureSlot("fur") = 0
    /\ FindTextureID("fur") = loadLog[1][2]
    /\ FindTextureID("fur") # m_textureIDs[2].ID

====
